---- MODULE Spec2Model ----
(***************************************************************************)
(* A model of ASTwalker.py: the per-file analyzer (CodeAnalyzer), the      *)
(* two-pass graph builder (build_graph), the pruner (prune_graph) and the  *)
(* driver (main).                                                          *)
(*                                                                         *)
(* Representation.                                                         *)
(*   - A dotted name 'app.util.helper' is the sequence of its components   *)
(*     <<"app", "util", "helper">>; components are identifiers (they hold  *)
(*     no '.' and no ':').                                                 *)
(*   - A node id 'kind:name' is the pair <<kind, name>>.                   *)
(*   - Python's None is the empty sequence; an Optional[str] that is set   *)
(*     is the one-element sequence <<s>>.                                  *)
(*   - A parsed file is the sequence of the AST nodes in the order         *)
(*     ast.NodeVisitor visits them (pre-order); the return from the        *)
(*     generic_visit of a ClassDef or FunctionDef is marked by an          *)
(*     EndClassDef or EndFunctionDef entry, and the Python call stack      *)
(*     that holds the handlers' local `prev` is the variable stack.        *)
(*   - networkx.DiGraph: a set of nodes and a map from (source, target)    *)
(*     pairs to edge attributes; add_edge adds missing endpoints and       *)
(*     merges attributes into an existing edge, remove_nodes_from removes  *)
(*     the incident edges as well. Node attributes (label, style) are      *)
(*     presentation only and are left out.                                 *)
(***************************************************************************)
EXTENDS Integers, Sequences, FiniteSets, TLC

VARIABLES
    tree,       \* the file system: [root |-> directory name, files |-> [path -> content]]
    output,     \* the rendered graph on disk: <<>> or <<G>>
    run,        \* how many times the program has been started
    pc,         \* position of the running process
    ROOT_PKG,   \* the module-level global ROOT_PKG
    files,      \* build_graph: files, as listed by scan_py_files
    i,          \* build_graph: index of the Pass 1 loop
    results,    \* build_graph: results
    j,          \* build_graph: index of the Pass 2 loop
    ca,         \* the CodeAnalyzer of the file being analysed
    pos,        \* index of the next AST node to visit
    stack,      \* the saved `prev` of every handler that has not yet returned
    G           \* build_graph / main: G

vars == <<tree, output, run, pc, ROOT_PKG, files, i, results, j, ca, pos, stack, G>>

None == <<>>

-----------------------------------------------------------------------------
(* Bounds of the model *)

\* the largest number of files under the root directory
MaxFiles == 3

\* the number of times the program is run on the same tree
MaxRuns == 2

\* the largest number of edges of a graph handed to prune_graph directly
MaxEdges == 2

-----------------------------------------------------------------------------
(* Strings and names *)

\* str.startswith
StartsWith(s, p) == Len(s) >= Len(p) /\ SubSeq(s, 1, Len(p)) = p

\* full.startswith(ROOT_PKG) for a dotted name and a dot-free prefix: the
\* prefix is compared with the characters of the joined string, and a dot-free
\* prefix cannot reach beyond the first component.
NameStartsWith(full, root) ==
    IF root = "" THEN TRUE
    ELSE full # <<>> /\ StartsWith(full[1], root)

Max(a, b) == IF a >= b THEN a ELSE b

\* s.rsplit('.', n)[0]: at most n splits from the right, and never more than
\* there are dots
RsplitHead(name, n) == SubSeq(name, 1, Max(1, Len(name) - n))

IGNORE_MODULES ==
    {"logging", "os", "sys", "timeit", "pytz", "datetime", "numpy", "traceback"}

import_edge == [color |-> "#888888", dashes |-> FALSE]
declares_edge == [color |-> "#888888", dashes |-> TRUE]
call_edge == [color |-> "#666666", dashes |-> FALSE]

module_name(path, root_pkg) == <<root_pkg>> \o path

NodeId(kind, name) == <<kind, name>>

Range(f) == {f[x] : x \in DOMAIN f}

Last(s) == s[Len(s)]

-----------------------------------------------------------------------------
(* The syntax trees of the files of the model *)

Name(id) == [k |-> "Name", id |-> id]
Attribute(value, attr) == [k |-> "Attribute", value |-> value, attr |-> attr]
OtherExpr == [k |-> "Other"]

alias(name, asname) == [name |-> name, asname |-> asname]
Import(names) == [t |-> "Import", names |-> names]
ImportFrom(module, names, level) ==
    [t |-> "ImportFrom", module |-> module, names |-> names, level |-> level]
ClassDef(name) == [t |-> "ClassDef", name |-> name]
EndClassDef == [t |-> "EndClassDef"]
FunctionDef(name) == [t |-> "FunctionDef", name |-> name]
EndFunctionDef == [t |-> "EndFunctionDef"]
Call(func) == [t |-> "Call", func |-> func]
OtherNode == [t |-> "Other"]

Parsed(body) == [kind |-> "ok", body |-> body]
Unreadable == [kind |-> "unreadable", body |-> <<>>]
SyntaxError == [kind |-> "syntax_error", body |-> <<>>]

\* import app.util as util
\* util.helper()
MainImportAs ==
    Parsed(<< Import(<<alias(<<"app", "util">>, <<"util">>)>>),
              Call(Attribute(Name("util"), "helper")) >>)

\* from app import util
\* util.helper()
MainFromPkg ==
    Parsed(<< ImportFrom(<<"app">>, <<alias(<<"util">>, None)>>, 0),
              Call(Attribute(Name("util"), "helper")) >>)

\* from . import util
\* util.helper()
MainFromDot ==
    Parsed(<< ImportFrom(None, <<alias(<<"util">>, None)>>, 1),
              Call(Attribute(Name("util"), "helper")) >>)

\* import os
\* os.getcwd()
\* import logging, app
\* logging.info()
\* from logging import info
\* info()
\* app()
MainExternal ==
    Parsed(<< Import(<<alias(<<"os">>, None)>>),
              Call(Attribute(Name("os"), "getcwd")),
              Import(<<alias(<<"logging">>, None), alias(<<"app">>, None)>>),
              Call(Attribute(Name("logging"), "info")),
              ImportFrom(<<"logging">>, <<alias(<<"info">>, None)>>, 0),
              Call(Name("info")),
              Call(Name("app")) >>)

\* def helper(): pass
UtilHelper == Parsed(<< FunctionDef("helper"), EndFunctionDef >>)

\* def helper():
\*     class K:
\*         def m(self):
\*             helper()
\*     helper()
\* class Outer:
\*     class Inner:
\*         def deep(self):
\*             m()
\*     def after(self):
\*         deep()
UtilNested ==
    Parsed(<< FunctionDef("helper"),
                ClassDef("K"),
                  FunctionDef("m"), Call(Name("helper")), EndFunctionDef,
                EndClassDef,
                Call(Name("helper")),
              EndFunctionDef,
              ClassDef("Outer"),
                ClassDef("Inner"),
                  FunctionDef("deep"), Call(Name("m")), EndFunctionDef,
                EndClassDef,
                FunctionDef("after"), Call(Name("deep")), EndFunctionDef,
              EndClassDef >>)

\* run()
\* class X:
\*     def run(self):
\*         run()
\* class Y:
\*     def run(self):
\*         def inner():
\*             run()
\*         inner()
\*     z = run()
\* run()
ANested ==
    Parsed(<< Call(Name("run")),
              ClassDef("X"),
                FunctionDef("run"), Call(Name("run")), EndFunctionDef,
              EndClassDef,
              ClassDef("Y"),
                FunctionDef("run"),
                  FunctionDef("inner"), Call(Name("run")), EndFunctionDef,
                  Call(Name("inner")),
                EndFunctionDef,
                Call(Name("run")),
              EndClassDef,
              Call(Name("run")) >>)

\* class b:
\*     def c(self): pass
\* async def g():
\*     c()
\* x.y.z()
\* (lambda: 0)()
AClassB ==
    Parsed(<< ClassDef("b"), FunctionDef("c"), EndFunctionDef, EndClassDef,
              OtherNode, Call(Name("c")),
              Call(Attribute(OtherExpr, "z")),
              Call(OtherExpr) >>)

\* def c(): pass
\* from . import sub
\* from ..util import helper as h, other
\* from . import *
\* from ... import x
\* h()
\* sub.f()
\* x()
BRelative ==
    Parsed(<< FunctionDef("c"), EndFunctionDef,
              ImportFrom(None, <<alias(<<"sub">>, None)>>, 1),
              ImportFrom(<<"util">>, <<alias(<<"helper">>, <<"h">>),
                                       alias(<<"other">>, None)>>, 2),
              ImportFrom(None, <<alias(<<"*">>, None)>>, 1),
              ImportFrom(None, <<alias(<<"x">>, None)>>, 3),
              Call(Name("h")),
              Call(Attribute(Name("sub"), "f")),
              Call(Name("x")) >>)

\* the names a root directory may have
Roots == {"app", "log"}

\* the contents a file at each path (relative to the root, '.py' removed)
\* may have
Library ==
    [p \in {<<"main">>, <<"util">>, <<"a">>, <<"a", "b">>} |->
        CASE p = <<"main">> -> {MainImportAs, MainFromPkg, MainFromDot, MainExternal}
          [] p = <<"util">> -> {UtilHelper, UtilNested, SyntaxError}
          [] p = <<"a">> -> {ANested, AClassB, Unreadable}
          [] p = <<"a", "b">> -> {BRelative}]

Trees ==
    UNION { { [root |-> r, files |-> f] :
                r \in Roots,
                f \in { g \in [ps -> UNION Range(Library)] :
                          \A p \in ps : g[p] \in Library[p] } } :
            ps \in { s \in SUBSET DOMAIN Library : Cardinality(s) <= MaxFiles } }

Perms(S) ==
    { s \in [1..Cardinality(S) -> S] : \A a, b \in DOMAIN s : a # b => s[a] # s[b] }

-----------------------------------------------------------------------------
(* networkx.DiGraph *)

DiGraph == [nodes |-> {}, edges |-> <<>>]

has_node(g, n) == n \in g.nodes

add_node(g, n) == [g EXCEPT !.nodes = @ \cup {n}]

\* the attributes given update those of an existing edge; `dashes` is only
\* ever given as True, so an edge that has it keeps it
add_edge(g, u, v, attr) ==
    LET e == <<u, v>>
        old == IF e \in DOMAIN g.edges THEN g.edges[e] ELSE [color |-> "", dashes |-> FALSE]
        new == [color |-> attr.color, dashes |-> old.dashes \/ attr.dashes]
    IN [nodes |-> g.nodes \cup {u, v},
        edges |-> [x \in DOMAIN g.edges \cup {e} |-> IF x = e THEN new ELSE g.edges[x]]]

remove_nodes_from(g, rm) ==
    [nodes |-> g.nodes \ rm,
     edges |-> [x \in {e \in DOMAIN g.edges : e[1] \notin rm /\ e[2] \notin rm} |-> g.edges[x]]]

-----------------------------------------------------------------------------
(* CodeAnalyzer *)

CodeAnalyzer(modname) ==
    [mod |-> modname, imports |-> {}, aliases |-> <<>>, func_defs |-> <<>>,
     calls |-> <<>>, current_fn |-> None, current_class |-> None]

\* d[k] = v on a dict
SetItem(d, k, v) == [x \in DOMAIN d \cup {k} |-> IF x = k THEN v ELSE d[x]]

\* alias.asname or alias.name
LocalName(a) == IF a.asname # None THEN a.asname ELSE a.name

\* the alias is entered under the imported name, 'as' or not
ImportAlias_no_asname(c, a, root_pkg) ==
    LET full == a.name
        c1 == [c EXCEPT !.aliases = SetItem(@, a.name, full)]
    IN IF NameStartsWith(full, root_pkg)
       THEN [c1 EXCEPT !.imports = @ \cup {full}]
       ELSE c1

\* the body of the loop of visit_Import for one alias
ImportAlias(c, a, root_pkg) ==
    LET full == a.name
        c1 == [c EXCEPT !.aliases = SetItem(@, LocalName(a), full)]
    IN IF NameStartsWith(full, root_pkg)
       THEN [c1 EXCEPT !.imports = @ \cup {full}]
       ELSE c1

RECURSIVE ImportLoop(_, _, _)
ImportLoop(c, names, root_pkg) ==
    IF names = <<>> THEN c
    ELSE ImportLoop(ImportAlias(c, Head(names), root_pkg), Tail(names), root_pkg)

visit_Import(c, node, root_pkg) == ImportLoop(c, node.names, root_pkg)

\* one component is trimmed however many dots lead
FromModule_one_level(mod, module, level) ==
    IF level # 0
    THEN LET parent == RsplitHead(mod, 1)
         IN IF module # None THEN parent \o module ELSE parent
    ELSE module

\* the module a from-import names, its leading dots resolved against the
\* current module
FromModule(mod, module, level) ==
    IF level # 0
    THEN LET parent == RsplitHead(mod, level)
         IN IF module # None THEN parent \o module ELSE parent
    ELSE module

\* the body of the loop of visit_ImportFrom for one alias
ImportFromAlias(c, module, a, root_pkg) ==
    IF a.name = <<"*">> THEN c
    ELSE LET full == IF module # None THEN module \o a.name ELSE a.name
             c1 == [c EXCEPT !.aliases = SetItem(@, LocalName(a), full)]
         IN IF NameStartsWith(full, root_pkg)
            THEN [c1 EXCEPT !.imports = @ \cup {module}]
            ELSE c1

RECURSIVE ImportFromLoop(_, _, _, _)
ImportFromLoop(c, module, names, root_pkg) ==
    IF names = <<>> THEN c
    ELSE ImportFromLoop(ImportFromAlias(c, module, Head(names), root_pkg),
                        module, Tail(names), root_pkg)

visit_ImportFrom(c, node, root_pkg) ==
    ImportFromLoop(c, FromModule(c.mod, node.module, node.level), node.names, root_pkg)

\* visit_ClassDef up to its generic_visit
EnterClassDef(c, node) == [c EXCEPT !.current_class = <<node.name>>]

\* visit_ClassDef after its generic_visit
LeaveClassDef(c, prev) == [c EXCEPT !.current_class = prev]

\* the qualified name visit_FunctionDef gives a definition
FunctionQual(c, node) ==
    IF c.current_class # None
    THEN NodeId("function", c.mod \o c.current_class \o <<node.name>>)
    ELSE NodeId("function", c.mod \o <<node.name>>)

\* a name that is already in the symbol table keeps its first definition
EnterFunctionDef_first_wins(c, node) ==
    LET qual == FunctionQual(c, node)
    IN [c EXCEPT !.func_defs = IF node.name \in DOMAIN @ THEN @ ELSE SetItem(@, node.name, qual),
                 !.current_fn = qual]

\* visit_FunctionDef up to its generic_visit
EnterFunctionDef(c, node) ==
    LET qual == FunctionQual(c, node)
    IN [c EXCEPT !.func_defs = SetItem(@, node.name, qual), !.current_fn = qual]

\* the context is cleared, not restored
LeaveFunctionDef_cleared(c, prev) == [c EXCEPT !.current_fn = None]

\* visit_FunctionDef after its generic_visit
LeaveFunctionDef(c, prev) == [c EXCEPT !.current_fn = prev]

\* an alias resolves whatever package its target is in
Callee_any_package(c, func, root_pkg) ==
    IF func.k = "Name"
    THEN IF func.id \in DOMAIN c.func_defs THEN c.func_defs[func.id]
         ELSE IF <<func.id>> \in DOMAIN c.aliases
         THEN NodeId(IF Len(c.aliases[<<func.id>>]) > 1 THEN "function" ELSE "module",
                     c.aliases[<<func.id>>])
         ELSE None
    ELSE IF func.k = "Attribute" /\ func.value.k = "Name"
            /\ <<func.value.id>> \in DOMAIN c.aliases
    THEN NodeId("function", c.aliases[<<func.value.id>>] \o <<func.attr>>)
    ELSE None

\* the callee visit_Call resolves, or None
Callee(c, func, root_pkg) ==
    IF func.k = "Name"
    THEN LET name == func.id
         IN IF name \in DOMAIN c.func_defs THEN c.func_defs[name]
            ELSE IF <<name>> \in DOMAIN c.aliases
            THEN LET full == c.aliases[<<name>>]
                 IN IF NameStartsWith(full, root_pkg)
                    THEN IF Len(full) > 1
                         THEN NodeId("function", full)
                         ELSE NodeId("module", full)
                    ELSE None
            ELSE None
    ELSE IF func.k = "Attribute"
    THEN LET val == func.value
             attr == func.attr
         IN IF val.k = "Name" /\ <<val.id>> \in DOMAIN c.aliases
            THEN LET full == c.aliases[<<val.id>>]
                 IN IF NameStartsWith(full, root_pkg)
                    THEN NodeId("function", full \o <<attr>>)
                    ELSE None
            ELSE None
    ELSE None

\* self.current_fn or f"module:{self.mod}"
Caller(c) == IF c.current_fn # None THEN c.current_fn ELSE NodeId("module", c.mod)

visit_Call(c, node, root_pkg) ==
    LET callee == Callee(c, node.func, root_pkg)
    IN IF callee # None
       THEN [c EXCEPT !.calls = Append(@, <<Caller(c), callee>>)]
       ELSE c

-----------------------------------------------------------------------------
(* build_graph, Pass 2, and prune_graph *)

RECURSIVE AddImports(_, _, _)
AddImports(g, mod_id, imports) ==
    IF imports = {} THEN g
    ELSE LET im == CHOOSE x \in imports : TRUE
             tgt == NodeId("module", im)
         IN AddImports(add_edge(add_node(g, tgt), mod_id, tgt, import_edge),
                       mod_id, imports \ {im})

\* the edge to a function is styled as an import edge, without dashes
RECURSIVE AddFuncDefs_not_dashed(_, _, _)
AddFuncDefs_not_dashed(g, mod_id, quals) ==
    IF quals = {} THEN g
    ELSE LET qual == CHOOSE x \in quals : TRUE
         IN AddFuncDefs_not_dashed(add_edge(add_node(g, qual), mod_id, qual, import_edge),
                                   mod_id, quals \ {qual})

RECURSIVE AddFuncDefs(_, _, _)
AddFuncDefs(g, mod_id, quals) ==
    IF quals = {} THEN g
    ELSE LET qual == CHOOSE x \in quals : TRUE
         IN AddFuncDefs(add_edge(add_node(g, qual), mod_id, qual, declares_edge),
                        mod_id, quals \ {qual})

\* the inner loop over (caller, callee): a node that is missing is created
EnsureNode(g, node_id) == IF ~has_node(g, node_id) THEN add_node(g, node_id) ELSE g

\* a call edge is added only when its callee already is a node
AddCall_known_callee(g, caller, callee) ==
    IF has_node(g, callee)
    THEN add_edge(EnsureNode(g, caller), caller, callee, call_edge)
    ELSE g

AddCall(g, caller, callee) ==
    add_edge(EnsureNode(EnsureNode(g, caller), callee), caller, callee, call_edge)

RECURSIVE AddCalls(_, _)
AddCalls(g, calls) ==
    IF calls = <<>> THEN g
    ELSE AddCalls(AddCall(g, Head(calls)[1], Head(calls)[2]), Tail(calls))

\* the body of the Pass 2 loop for one entry of results
Aggregate(g, mod, c) ==
    LET file_id == NodeId("file", mod)
        mod_id == NodeId("module", mod)
        g1 == add_edge(add_node(add_node(g, file_id), mod_id), file_id, mod_id, import_edge)
        g2 == AddImports(g1, mod_id, c.imports)
        g3 == AddFuncDefs(g2, mod_id, Range(c.func_defs))
    IN AddCalls(g3, c.calls)

\* n.split(':', 1)[1] in IGNORE_MODULES or starts with an ignored name and a dot
Ignored(n) ==
    LET name == n[2]
    IN name # <<>> /\ name[1] \in IGNORE_MODULES

\* the nodes are taken out of the node set and their edges are left behind
prune_nodes_only(g) == [g EXCEPT !.nodes = {n \in @ : ~Ignored(n)}]

\* nodes removed while the node list is iterated: one node is removed, the
\* rest are skipped
prune_one(g) ==
    LET to_rm == {n \in g.nodes : Ignored(n)}
    IN IF to_rm = {} THEN g
       ELSE remove_nodes_from(g, {CHOOSE n \in to_rm : TRUE})

prune(g) == remove_nodes_from(g, {n \in g.nodes : Ignored(n)})

-----------------------------------------------------------------------------
(* The program *)

Init ==
    /\ tree \in Trees
    /\ output = None
    /\ run = 1
    /\ pc = "main"
    /\ ROOT_PKG = ""
    /\ files = <<>>
    /\ i = 0
    /\ results = <<>>
    /\ j = 0
    /\ ca = None
    /\ pos = 0
    /\ stack = <<>>
    /\ G = DiGraph

\* the file Pass 1 is at, and the nodes of its syntax tree
CurrentFile == tree.files[files[i]]
Body == CurrentFile.body
Node == Body[pos]

\* main, up to its call of build_graph
main ==
    /\ pc = "main"
    /\ ROOT_PKG' = tree.root
    /\ pc' = "build_graph"
    /\ UNCHANGED <<tree, output, run, files, i, results, j, ca, pos, stack, G>>

\* build_graph, up to its first loop: the enumerator lists the files in any order
scan_py_files ==
    /\ pc = "build_graph"
    /\ G' = DiGraph
    /\ \E order \in Perms(DOMAIN tree.files) : files' = order
    /\ results' = <<>>
    /\ i' = 1
    /\ pc' = "pass1"
    /\ UNCHANGED <<tree, output, run, ROOT_PKG, j, ca, pos, stack>>

\* Pass 1: the file is read and parsed, and its analyzer made
parse ==
    /\ pc = "pass1"
    /\ i <= Len(files)
    /\ CurrentFile.kind = "ok"
    /\ ca' = CodeAnalyzer(module_name(files[i], ROOT_PKG))
    /\ pos' = 1
    /\ stack' = <<>>
    /\ pc' = "visit"
    /\ UNCHANGED <<tree, output, run, ROOT_PKG, files, i, results, j, G>>

\* Pass 1: read_text or ast.parse raises; nothing catches it
parse_raises ==
    /\ pc = "pass1"
    /\ i <= Len(files)
    /\ CurrentFile.kind # "ok"
    /\ pc' = "aborted"
    /\ UNCHANGED <<tree, output, run, ROOT_PKG, files, i, results, j, ca, pos, stack, G>>

Visiting(t) == pc = "visit" /\ pos <= Len(Body) /\ Node.t = t

Visited(c) ==
    /\ ca' = c
    /\ pos' = pos + 1
    /\ UNCHANGED <<tree, output, run, pc, ROOT_PKG, files, i, results, j, G>>

Visit_Import ==
    /\ Visiting("Import")
    /\ Visited(visit_Import(ca, Node, ROOT_PKG))
    /\ UNCHANGED stack

Visit_ImportFrom ==
    /\ Visiting("ImportFrom")
    /\ Visited(visit_ImportFrom(ca, Node, ROOT_PKG))
    /\ UNCHANGED stack

Visit_ClassDef ==
    /\ Visiting("ClassDef")
    /\ stack' = Append(stack, ca.current_class)
    /\ Visited(EnterClassDef(ca, Node))

Return_ClassDef ==
    /\ Visiting("EndClassDef")
    /\ stack' = SubSeq(stack, 1, Len(stack) - 1)
    /\ Visited(LeaveClassDef(ca, Last(stack)))

Visit_FunctionDef ==
    /\ Visiting("FunctionDef")
    /\ stack' = Append(stack, ca.current_fn)
    /\ Visited(EnterFunctionDef(ca, Node))

Return_FunctionDef ==
    /\ Visiting("EndFunctionDef")
    /\ stack' = SubSeq(stack, 1, Len(stack) - 1)
    /\ Visited(LeaveFunctionDef(ca, Last(stack)))

Visit_Call ==
    /\ Visiting("Call")
    /\ Visited(visit_Call(ca, Node, ROOT_PKG))
    /\ UNCHANGED stack

\* a node of any other kind: NodeVisitor.generic_visit
generic_visit ==
    /\ Visiting("Other")
    /\ Visited(ca)
    /\ UNCHANGED stack

\* the facts of a file go into the graph as soon as the file is analysed
collect_streaming ==
    /\ pc = "visit"
    /\ pos > Len(Body)
    /\ results' = Append(results, [path |-> files[i], mod |-> ca.mod, ca |-> ca])
    /\ G' = Aggregate(G, ca.mod, ca)
    /\ i' = i + 1
    /\ ca' = None
    /\ pos' = 0
    /\ pc' = "pass1"
    /\ UNCHANGED <<tree, output, run, ROOT_PKG, files, j, stack>>

\* Pass 1: the traversal of the file has returned
collect ==
    /\ pc = "visit"
    /\ pos > Len(Body)
    /\ results' = Append(results, [path |-> files[i], mod |-> ca.mod, ca |-> ca])
    /\ i' = i + 1
    /\ ca' = None
    /\ pos' = 0
    /\ pc' = "pass1"
    /\ UNCHANGED <<tree, output, run, ROOT_PKG, files, j, stack, G>>

\* Pass 1 has gone through every file
pass1_done ==
    /\ pc = "pass1"
    /\ i > Len(files)
    /\ j' = 1
    /\ pc' = "pass2"
    /\ UNCHANGED <<tree, output, run, ROOT_PKG, files, i, results, ca, pos, stack, G>>

\* Pass 2: one entry of results
aggregate ==
    /\ pc = "pass2"
    /\ j <= Len(results)
    /\ G' = Aggregate(G, results[j].mod, results[j].ca)
    /\ j' = j + 1
    /\ UNCHANGED <<tree, output, run, pc, ROOT_PKG, files, i, results, ca, pos, stack>>

\* return G
build_graph_return ==
    /\ pc = "pass2"
    /\ j > Len(results)
    /\ files' = <<>>
    /\ results' = <<>>
    /\ i' = 0
    /\ j' = 0
    /\ pc' = "built"
    /\ UNCHANGED <<tree, output, run, ROOT_PKG, ca, pos, stack, G>>

prune_graph ==
    /\ pc = "built"
    /\ G' = prune(G)
    /\ pc' = "pruned"
    /\ UNCHANGED <<tree, output, run, ROOT_PKG, files, i, results, j, ca, pos, stack>>

\* the graph is written to the output file
render_graph ==
    /\ pc = "pruned"
    /\ output' = <<G>>
    /\ pc' = "done"
    /\ UNCHANGED <<tree, run, ROOT_PKG, files, i, results, j, ca, pos, stack, G>>

\* the process has ended and the program is started again on the same tree
restart ==
    /\ pc = "done"
    /\ run < MaxRuns
    /\ run' = run + 1
    /\ ROOT_PKG' = ""
    /\ G' = DiGraph
    /\ pc' = "main"
    /\ UNCHANGED <<tree, output, files, i, results, j, ca, pos, stack>>

Next ==
    \/ main
    \/ scan_py_files
    \/ parse
    \/ parse_raises
    \/ Visit_Import
    \/ Visit_ImportFrom
    \/ Visit_ClassDef
    \/ Return_ClassDef
    \/ Visit_FunctionDef
    \/ Return_FunctionDef
    \/ Visit_Call
    \/ generic_visit
    \/ collect
    \/ pass1_done
    \/ aggregate
    \/ build_graph_return
    \/ prune_graph
    \/ render_graph
    \/ restart

Spec == Init /\ [][Next]_vars

-----------------------------------------------------------------------------
(* prune_graph on any graph *)

\* nodes whose names are an ignored module, lie under one, begin with the
\* letters of one, and hold one further down
PruneNodes ==
    {NodeId("module", <<"os">>), NodeId("function", <<"os", "path", "join">>),
     NodeId("module", <<"osmosis">>), NodeId("function", <<"log", "os">>)}

RECURSIVE SubsetsUpTo(_, _)
SubsetsUpTo(S, k) ==
    IF k = 0 THEN {{}}
    ELSE LET r == SubsetsUpTo(S, k - 1)
         IN r \cup {x \cup {e} : x \in r, e \in S}

\* the graphs over PruneNodes with at most MaxEdges edges
Graphs ==
    UNION { { [nodes |-> ns, edges |-> es] :
                es \in UNION { [ps -> {import_edge, call_edge}] :
                               ps \in SubsetsUpTo(ns \X ns, MaxEdges) } } :
            ns \in SUBSET PruneNodes }

\* main holds a graph and is about to call prune_graph
InitPrune ==
    /\ tree = [root |-> "log", files |-> <<>>]
    /\ output = None
    /\ run = MaxRuns
    /\ pc = "built"
    /\ ROOT_PKG = "log"
    /\ files = <<>>
    /\ i = 0
    /\ results = <<>>
    /\ j = 0
    /\ ca = None
    /\ pos = 0
    /\ stack = <<>>
    /\ G \in Graphs

\* the program as above, and prune_graph called on any graph
SpecPrune == (Init \/ InitPrune) /\ [][Next]_vars

-----------------------------------------------------------------------------
(* The properties *)

NoDangling(g) == \A e \in DOMAIN g.edges : e[1] \in g.nodes /\ e[2] \in g.nodes

\* C1: in the graph build_graph returns, and in that graph after prune_graph,
\* both endpoints of every edge are nodes of the graph.
C1_NoDanglingEdges == pc \in {"built", "pruned"} => NoDangling(G)

\* build_graph has returned a graph in which an edge leads from a node that
\* stays to a node the pruner removes
C1_Witness ==
    /\ pc = "built"
    /\ \E e \in DOMAIN G.edges : Ignored(e[2]) /\ ~Ignored(e[1])

\* C2: a run on the same tree ends with the nodes and edges the run before
\* it rendered, whatever the order in which either run listed the files.
C2_Deterministic == (pc = "pruned" /\ output # None) => G = output[1]

\* a second run on a tree of several files has built and pruned a graph with a
\* call edge into another file's function
C2_Witness ==
    /\ pc = "pruned"
    /\ output # None
    /\ Cardinality(DOMAIN tree.files) >= 2
    /\ <<NodeId("module", <<"app", "main">>), NodeId("function", <<"app", "util", "helper">>)>>
           \in DOMAIN G.edges

\* C3: pruning a pruned graph removes nothing: the nodes and edges stay as
\* they are. Checked under SpecPrune, of the graphs build_graph returns and of
\* every graph of Graphs.
C3_PruneIdempotent == pc = "pruned" => prune(G) = G

\* the pruner has run on a graph from which it had several nodes to remove,
\* and has left nodes and edges
C3_Witness ==
    /\ pc = "pruned"
    /\ tree.root = "log"
    /\ <<"main">> \in DOMAIN tree.files
    /\ tree.files[<<"main">>] = MainExternal
    /\ G.nodes # {}
    /\ DOMAIN G.edges # {}

\* C5: every node of the graph has a name that begins with the root package
\* name; during the analysis every import recorded, and the callee of every
\* call recorded, begins with it, so that an import or a call of another
\* package adds no node and no edge.
C5_IntraPackageOnly ==
    /\ pc \in {"pass2", "built"} => \A n \in G.nodes : StartsWith(n[2][1], ROOT_PKG)
    /\ pc = "visit" =>
        /\ \A im \in ca.imports : StartsWith(im[1], ROOT_PKG)
        /\ \A c \in Range(ca.calls) : StartsWith(c[2][2][1], ROOT_PKG)

\* the graph of a tree whose main.py imports os and calls os.getcwd() is built
C5_Witness ==
    /\ pc = "built"
    /\ ROOT_PKG = "app"
    /\ <<"main">> \in DOMAIN tree.files
    /\ tree.files[<<"main">>] = MainExternal
    /\ NodeId("module", <<"app">>) \in G.nodes

\* C9: the graph is empty as long as Pass 1 is under way, and a run that a
\* read or parse failure aborts has an empty graph, has rendered nothing and
\* takes no further step.
C9_NoPartialGraph ==
    /\ pc \in {"pass1", "visit", "aborted"} => G = DiGraph
    /\ pc = "aborted" => output = None /\ ~ENABLED Next

\* the run is aborted by a file that is not the first one listed
C9_Witness == pc = "aborted" /\ Len(results) >= 1

(* The lexical structure of a file, read off its syntax tree *)

\* the definitions (class or function) that are open after the first p nodes,
\* outermost first
RECURSIVE OpenDefs(_, _)
OpenDefs(body, p) ==
    IF p = 0 THEN <<>>
    ELSE LET s == OpenDefs(body, p - 1)
         IN IF body[p].t \in {"ClassDef", "FunctionDef"} THEN Append(s, p)
            ELSE IF body[p].t \in {"EndClassDef", "EndFunctionDef"}
            THEN SubSeq(s, 1, Len(s) - 1)
            ELSE s

\* the innermost open definition of kind t after the first p nodes, or 0
Innermost(body, p, t) ==
    LET s == OpenDefs(body, p)
        ks == {k \in DOMAIN s : body[s[k]].t = t}
    IN IF ks = {} THEN 0 ELSE s[CHOOSE k \in ks : \A l \in ks : l <= k]

\* the qualified name of the function definition at index k
QualifiedName(mod, body, k) ==
    LET cls == Innermost(body, k - 1, "ClassDef")
    IN NodeId("function",
              mod \o (IF cls = 0 THEN <<>> ELSE <<body[cls].name>>) \o <<body[k].name>>)

\* the function definition that encloses index p, by its qualified name, or
\* the module-level caller
LexicalCaller(mod, body, p) ==
    LET f == Innermost(body, p - 1, "FunctionDef")
    IN IF f = 0 THEN NodeId("module", mod) ELSE QualifiedName(mod, body, f)

\* the last definition of a function named f before index p, or 0
LastDefinition(body, p, f) ==
    LET ks == {k \in 1..(p - 1) : body[k].t = "FunctionDef" /\ body[k].name = f}
    IN IF ks = {} THEN 0 ELSE CHOOSE k \in ks : \A l \in ks : l <= k

\* the simple names a file defines or calls
SimpleNames(body) ==
    {body[k].name : k \in {x \in DOMAIN body : body[x].t = "FunctionDef"}}
    \cup {body[k].func.id :
            k \in {x \in DOMAIN body : body[x].t = "Call" /\ body[x].func.k = "Name"}}

\* C8: at every point of a file's traversal a call of a bare name f resolves
\* to the qualified name of the definition of f visited last before that
\* point, and the symbol table has no entry for f when no definition of f has
\* been visited.
C8_LastDefinitionWins ==
    pc = "visit" =>
        \A f \in SimpleNames(Body) :
            LET k == LastDefinition(Body, pos, f)
            IN IF k # 0
               THEN Callee(ca, Name(f), ROOT_PKG) = QualifiedName(ca.mod, Body, k)
               ELSE f \notin DOMAIN ca.func_defs

\* the last call of run() in a file that defines X.run and then Y.run has
\* been recorded, from module level, as a call of Y.run
C8_Witness ==
    /\ pc = "visit"
    /\ CurrentFile = ANested
    /\ pos > Len(Body)
    /\ Last(ca.calls) = <<NodeId("module", ca.mod), NodeId("function", ca.mod \o <<"Y", "run">>)>>

\* C10: at every point of a file's traversal the current function is the
\* innermost function definition that is open there and the current class the
\* innermost open class, so that leaving a definition gives back the context
\* of its entry, and both are empty when the traversal ends; the caller
\* recorded for a resolved call is that function, or the module-level caller
\* when no function definition encloses the call.
C10_CallerAttribution ==
    pc = "visit" =>
        /\ Caller(ca) = LexicalCaller(ca.mod, Body, pos)
        /\ ca.current_fn # None <=> Innermost(Body, pos - 1, "FunctionDef") # 0
        /\ ca.current_class =
             (LET cls == Innermost(Body, pos - 1, "ClassDef")
              IN IF cls = 0 THEN None ELSE <<Body[cls].name>>)
        /\ pos > Len(Body) => ca.current_fn = None /\ ca.current_class = None
        /\ (pos > 1 /\ Body[pos - 1].t = "Call"
              /\ Callee(ca, Body[pos - 1].func, ROOT_PKG) # None) =>
             /\ ca.calls # <<>>
             /\ Last(ca.calls)[1] = LexicalCaller(ca.mod, Body, pos - 1)

\* a call in a function nested in a method of a class has been recorded with
\* the nested function as its caller
C10_Witness ==
    /\ pc = "visit"
    /\ pos > 1
    /\ Body[pos - 1].t = "Call"
    /\ Len(stack) = 3
    /\ ca.calls # <<>>
    /\ Last(ca.calls)[1] = NodeId("function", ca.mod \o <<"Y", "inner">>)

\* the relative from-import just visited, in a module with more components
\* than the import has dots
RelativeImportVisited ==
    /\ pc = "visit"
    /\ pos > 1
    /\ Body[pos - 1].t = "ImportFrom"
    /\ Body[pos - 1].level >= 1
    /\ Len(ca.mod) > Body[pos - 1].level

\* the names of a from-import that bind a local name: not the wildcard, and
\* not rebound by a later name of the same statement
Bindings(node) ==
    {k \in DOMAIN node.names :
        /\ node.names[k].name # <<"*">>
        /\ \A l \in DOMAIN node.names :
             (l > k /\ node.names[l].name # <<"*">>) =>
                 LocalName(node.names[l]) # LocalName(node.names[k])}

\* M with its last k components removed, then the suffix, then x
RelativeTarget(mod, node, a) ==
    SubSeq(mod, 1, Len(mod) - node.level) \o node.module \o a.name

\* C6 as stated: after 'from <dots><suffix> import x [as y]' the alias table
\* maps the local name to Q, and Q is in the import set when it begins with
\* the root package name.
C6_AsStated ==
    RelativeImportVisited =>
        \A k \in Bindings(Body[pos - 1]) :
            LET a == Body[pos - 1].names[k]
                Q == RelativeTarget(ca.mod, Body[pos - 1], a)
            IN /\ LocalName(a) \in DOMAIN ca.aliases
               /\ ca.aliases[LocalName(a)] = Q
               /\ StartsWith(Q[1], ROOT_PKG) => Q \in ca.imports

\* C6 amended: the alias table maps the local name to Q, and the import set
\* holds the module the name is imported from, Q without its last component
\* '.x', when Q begins with the root package name.
C6_RelativeImport ==
    RelativeImportVisited =>
        \A k \in Bindings(Body[pos - 1]) :
            LET a == Body[pos - 1].names[k]
                Q == RelativeTarget(ca.mod, Body[pos - 1], a)
            IN /\ LocalName(a) \in DOMAIN ca.aliases
               /\ ca.aliases[LocalName(a)] = Q
               /\ StartsWith(Q[1], ROOT_PKG) => SubSeq(Q, 1, Len(Q) - 1) \in ca.imports

\* 'from ..util import helper as h, other' has been visited in a module of
\* three components
C6_Witness ==
    /\ RelativeImportVisited
    /\ Body[pos - 1].level = 2
    /\ Body[pos - 1].module = <<"util">>
    /\ ca.aliases[<<"h">>] = <<ROOT_PKG, "util", "helper">>

\* Pass 2 has gone through every file: G is the graph build_graph returns
GraphComplete == pc = "pass2" /\ j > Len(results)

FunctionNodes(g) == {n \in g.nodes : n[1] = "function"}

\* the declares edges into n: the edges added with dashes
Declares(g, n) == {e \in DOMAIN g.edges : e[2] = n /\ g.edges[e].dashes}

\* whether name p is name n with its last one or more components removed
ProperPrefix(p, n) == Len(p) < Len(n) /\ SubSeq(n, 1, Len(p)) = p

\* C7 as stated: every function node has exactly one incoming declares edge,
\* from the module node of the module part of its qualified name.
C7_AsStated ==
    GraphComplete =>
        \A n \in FunctionNodes(G) :
            /\ Cardinality(Declares(G, n)) = 1
            /\ \A e \in Declares(G, n) : e[1][1] = "module" /\ ProperPrefix(e[1][2], n[2])

\* C7 amended: the declares edges into a function node come from exactly the
\* module nodes of the files whose symbol table holds the function's
\* qualified name at the end of their traversal; a function node that no
\* symbol table holds (one created on demand as the endpoint of a call) has
\* none.
C7_DeclaringModules ==
    GraphComplete =>
        \A n \in FunctionNodes(G) :
            Declares(G, n) =
                { <<NodeId("module", results[k].mod), n>> :
                    k \in {x \in DOMAIN results : n \in Range(results[x].ca.func_defs)} }

\* the graph is complete and holds a function node with one declares edge, a
\* function node created on demand with none, and a function node two files
\* declare
C7_Witness ==
    /\ GraphComplete
    /\ \E n \in FunctionNodes(G) : Cardinality(Declares(G, n)) = 1
    /\ \E n \in FunctionNodes(G) : Cardinality(Declares(G, n)) = 0
    /\ \E n \in FunctionNodes(G) : Cardinality(Declares(G, n)) = 2

\* the tree of the end-to-end scenario: app/main.py and app/util.py
Scenario(mainfile) ==
    /\ tree.root = "app"
    /\ DOMAIN tree.files = {<<"main">>, <<"util">>}
    /\ tree.files[<<"main">>] = mainfile
    /\ tree.files[<<"util">>] = UtilHelper

AppMain == <<"app", "main">>
AppUtil == <<"app", "util">>
AppUtilHelper == <<"app", "util", "helper">>

\* the graph of the scenario, its imports edge leading to module:<imported>
ScenarioGraph(imported) ==
    LET edges ==
          (<<NodeId("file", AppMain), NodeId("module", AppMain)>> :> import_edge)
          @@ (<<NodeId("file", AppUtil), NodeId("module", AppUtil)>> :> import_edge)
          @@ (<<NodeId("module", AppUtil), NodeId("function", AppUtilHelper)>> :> declares_edge)
          @@ (<<NodeId("module", AppMain), NodeId("module", imported)>> :> import_edge)
          @@ (<<NodeId("module", AppMain), NodeId("function", AppUtilHelper)>> :> call_edge)
    IN [nodes |-> {NodeId("file", AppMain), NodeId("module", AppMain),
                   NodeId("file", AppUtil), NodeId("module", AppUtil),
                   NodeId("function", AppUtilHelper), NodeId("module", imported)},
        edges |-> edges]

\* C4 as stated: whichever of the three import forms main.py uses, the final
\* graph is exactly the five nodes and five edges of the scenario.
C4_AsStated ==
    \A m \in {MainImportAs, MainFromPkg, MainFromDot} :
        (pc = "pruned" /\ Scenario(m)) => G = ScenarioGraph(AppUtil)

\* C4 amended: with 'import app.util as util' the final graph is exactly the
\* five nodes and five edges of the scenario; with 'from app import util' or
\* 'from . import util' the imports edge leads from module:app.main to
\* module:app, a sixth node, and not to module:app.util, and the rest is as
\* stated.
C4_EndToEnd ==
    /\ (pc = "pruned" /\ Scenario(MainImportAs)) => G = ScenarioGraph(AppUtil)
    /\ \A m \in {MainFromPkg, MainFromDot} :
         (pc = "pruned" /\ Scenario(m)) => G = ScenarioGraph(<<"app">>)

\* the scenario with 'import app.util as util' has been built and pruned
C4_Witness ==
    /\ pc = "pruned"
    /\ Scenario(MainImportAs)
    /\ NodeId("function", AppUtilHelper) \in G.nodes

====
